---- MODULE Spec2Model ----
(***************************************************************************)
(* Model of market_maker.py: a single-market quoting client.  Three stream *)
(* callbacks feed process-wide caches, a control loop (market_making_loop) *)
(* polls them, prices a quote, and places / cancels one order through the  *)
(* trading transport.                                                      *)
(*                                                                         *)
(* Number representation.  Python floats are modelled as exact fixed-point *)
(* integers:                                                               *)
(*   - book prices and mid prices: integer price units (books are chosen   *)
(*     with bid + ask even, so (bid + ask) / 2 is exact);                  *)
(*   - position sizes and order amounts: integer multiples of 1/PosScale;  *)
(*   - order prices and the offsets delta_a / delta_b: integer multiples   *)
(*     of 1/PriceDen of a price unit.                                      *)
(* Time.  The code only ever uses differences time.time() - t0, so each    *)
(* timestamp t0 is represented by its age.  ob_age stands for             *)
(* time.time() - last_order_book_update and is kept as the least age of    *)
(* its class: below MidFreshWindow, up to HealthStaleLimit, or beyond (the *)
(* code compares it with nothing else); a sleep moves it to every class    *)
(* that an age of its class can reach.  avellaneda_age is                  *)
(* time.time() - last_avellaneda_update, saturating at the refresh         *)
(* interval.  Time passes only while the                                   *)
(* controller is in a sleep or a timed wait; sleep_left is what remains of *)
(* it.  Replies of the trading transport take no time.                     *)
(*                                                                         *)
(* Control.  pc is the await at which the main task is suspended; the code *)
(* between two awaits runs without interruption (one event loop), so it is *)
(* one action.  Stream callbacks run whenever the main task is suspended.  *)
(***************************************************************************)
EXTENDS Integers, Sequences, FiniteSets, TLC

VARIABLES
    \* ---- configuration read from the environment at import ----
    REQUIRE_PARAMS,
    \* ---- Market State Cache ----
    latest_order_book, current_mid_price_cached, ob_age,
    ws_connection_healthy, order_book_received, ws_task_done,
    \* ---- Account State Cache ----
    available_capital, portfolio_value, account_state_received,
    current_position_size, account_all_received,
    \* ---- Quote parameters ----
    avellaneda_params, avellaneda_age, param_files,
    \* ---- Order Lifecycle Controller ----
    pc, order_side, current_order_id, last_mid_price,
    current_mid_price, order_price, sleep_left, req,
    \* ---- history: the last operation that ran, with its inputs/outputs ----
    ev

vars == << REQUIRE_PARAMS,
           latest_order_book, current_mid_price_cached, ob_age,
           ws_connection_healthy, order_book_received, ws_task_done,
           available_capital, portfolio_value, account_state_received,
           current_position_size, account_all_received,
           avellaneda_params, avellaneda_age, param_files,
           pc, order_side, current_order_id, last_mid_price,
           current_mid_price, order_price, sleep_left, req, ev >>

configVars   == << REQUIRE_PARAMS >>
marketVars   == << latest_order_book, current_mid_price_cached, ob_age,
                   ws_connection_healthy, order_book_received, ws_task_done >>
capitalVars  == << available_capital, portfolio_value, account_state_received >>
positionVars == << current_position_size, account_all_received >>
paramVars    == << avellaneda_params, avellaneda_age >>
ctrlVars     == << pc, order_side, current_order_id, last_mid_price,
                   current_mid_price, order_price, sleep_left, req >>

\* Optional values: Python's None is the empty tuple, any other value x is <<x>>.
None == << >>
Some(x) == << x >>
Val(o) == o[1]

(***************************************************************************)
(* Program constants.                                                      *)
(***************************************************************************)
\* SPREAD = 0.035 / 100.0 = SpreadNum / PriceDen
SpreadNum == 35
\* denominator of the fixed-point order prices (1e-5 of a price unit)
PriceDen == 100000
\* AVELLANEDA_REFRESH_INTERVAL, seconds
AVELLANEDA_REFRESH_INTERVAL == 900
\* ORDER_TIMEOUT, seconds
ORDER_TIMEOUT == 90
\* the literal 15.0 (minimum notional, USD) of the sell-side and flip tests
MinNotional == 15
\* positions are integer multiples of 1/PosScale (the 0.001 floor of
\* calculate_dynamic_base_amount is one such unit)
PosScale == 1000
\* the 1e-9 of abs(current_position_size) < 1e-9, as its reciprocal
NearZeroInv == 1000000000
\* price_changed threshold 0.001, as its reciprocal
PriceChangeInv == 1000
\* get_current_mid_price freshness window, seconds
MidFreshWindow == 10
\* check_websocket_health staleness limit, seconds
HealthStaleLimit == 30
\* restart_websocket wait_for timeout, seconds
RestartTimeout == 15
\* startup readiness wait_for timeout, seconds
ReadyTimeout == 30
\* the four entries of the candidates list of load_avellaneda_parameters
NumCandidates == 4

Abs(x) == IF x < 0 THEN -x ELSE x
Max(a, b) == IF a > b THEN a ELSE b

(***************************************************************************)
(* JSON values of the parameter file and Python's float().                 *)
(* A value is [t, v]: t = "num" (a JSON number v), "numstr" (a JSON string *)
(* holding the number v), "nan" / "inf" (the JSON literals NaN, Infinity), *)
(* "str" (a non-numeric string) or "null" (null, or the key is absent so   *)
(* dict.get returns None).                                                 *)
(***************************************************************************)
Num(v)    == [t |-> "num", v |-> v]
NumStr(v) == [t |-> "numstr", v |-> v]
NaN       == [t |-> "nan", v |-> 0]
Inf       == [t |-> "inf", v |-> 0]
Str       == [t |-> "str", v |-> 0]
Null      == [t |-> "null", v |-> 0]

\* float(x) raises ValueError / TypeError
FloatRaises(x) == x.t \in {"str", "null"}
\* math.isfinite(float(x)), for x that converts
FloatIsFinite(x) == x.t \in {"num", "numstr"}
\* the value of float(x), for x finite
FloatValue(x) == x.v

(***************************************************************************)
(* Parameter files.  A candidate path holds one of:                        *)
(*   missing  - open() raises FileNotFoundError                            *)
(*   ioerror  - open() raises another error (caught by the outer except)   *)
(*   badjson  - json.load raises JSONDecodeError                           *)
(*   empty    - parses to a falsy value ({} or null)                       *)
(*   nostruct - a dict whose 'limit_orders' is missing or not a dict       *)
(*   params   - {limit_orders: {delta_a: .., delta_b: ..}}                 *)
(***************************************************************************)
FileOf(k)        == [kind |-> k, delta_a |-> Null, delta_b |-> Null]
ParamsFile(a, b) == [kind |-> "params", delta_a |-> a, delta_b |-> b]

\* lines 383-390: both offsets convert, are finite and non-negative
OffsetsValidNoSign(data) ==
    /\ ~FloatRaises(data.delta_a) /\ ~FloatRaises(data.delta_b)
    /\ FloatIsFinite(data.delta_a) /\ FloatIsFinite(data.delta_b)
OffsetsValid(data) ==
    /\ ~FloatRaises(data.delta_a) /\ ~FloatRaises(data.delta_b)
    /\ FloatIsFinite(data.delta_a) /\ FloatIsFinite(data.delta_b)
    /\ FloatValue(data.delta_a) >= 0 /\ FloatValue(data.delta_b) >= 0

\* lines 360-370: the index of the first candidate whose open() does not
\* raise FileNotFoundError, 0 when every candidate is missing
RECURSIVE FirstOpenedFrom(_, _)
FirstOpenedFrom(files, i) ==
    IF i > Len(files) THEN 0
    ELSE IF files[i].kind # "missing" THEN i
    ELSE FirstOpenedFrom(files, i + 1)
FirstOpened(files) == FirstOpenedFrom(files, 1)

\* lines 360-392: the data the read of the candidate files accepts
\* (None when the loader returns False)
ReadCandidatesSkipping(files) ==
    LET usable == { i \in 1..Len(files) :
                      files[i].kind = "params" /\ OffsetsValid(files[i]) }
    IN
    IF usable = {} THEN None
    ELSE Some(files[CHOOSE i \in usable : \A j \in usable : i <= j])
ReadCandidates(files) ==
    LET i == FirstOpened(files) IN
    IF i = 0 THEN None
    ELSE IF files[i].kind = "params" /\ OffsetsValid(files[i]) THEN Some(files[i])
    ELSE None

\* load_avellaneda_parameters: [ok, params, age] after the call
load_avellaneda_parameters(cache, age, files) ==
    IF cache # None /\ age < AVELLANEDA_REFRESH_INTERVAL
    THEN [ok |-> TRUE, params |-> cache, age |-> age]
    ELSE LET data == ReadCandidates(files) IN
         IF data = None
         THEN [ok |-> FALSE, params |-> None, age |-> age]
         ELSE [ok |-> TRUE, params |-> data, age |-> 0]

\* lines 410-419 of calculate_order_price, given the loader's result:
\* the price in 1/PriceDen units, or None for "no-quote"
PriceFromSwapped(ld, require, mid, side) ==
    IF ld.ok /\ ld.params # None
    THEN IF side = "buy"
         THEN Some(mid * PriceDen + FloatValue(Val(ld.params).delta_b))
         ELSE Some(mid * PriceDen - FloatValue(Val(ld.params).delta_a))
    ELSE IF require THEN None
    ELSE IF side = "buy" THEN Some(mid * (PriceDen - SpreadNum))
    ELSE Some(mid * (PriceDen + SpreadNum))
PriceFrom(ld, require, mid, side) ==
    IF ld.ok /\ ld.params # None
    THEN IF side = "buy"
         THEN Some(mid * PriceDen - FloatValue(Val(ld.params).delta_b))
         ELSE Some(mid * PriceDen + FloatValue(Val(ld.params).delta_a))
    ELSE IF require THEN None
    ELSE IF side = "buy" THEN Some(mid * (PriceDen - SpreadNum))
    ELSE Some(mid * (PriceDen + SpreadNum))

(***************************************************************************)
(* Stream callbacks.  The stream tasks always pass ACCOUNT_INDEX           *)
(* (lines 229, 297, 681-682) and the order-book client subscribes to       *)
(* MARKET_ID only (line 678), so the account / market guards of the        *)
(* callbacks are always true and are not modelled.                         *)
(***************************************************************************)
Absent == [t |-> "absent", v |-> 0]
\* dict.get(key, 0): an absent key reads as the number 0
GetOrZero(x) == IF x.t = "absent" THEN Num(0) ELSE x
\* float(x) > 0 for x that converts and is not Infinity (NaN compares false)
FloatPositive(x) == FloatIsFinite(x) /\ FloatValue(x) > 0

\* line 200: the acceptance test of on_user_stats_update
StatsAcceptedEither(ab, pv) == FloatPositive(ab) \/ FloatPositive(pv)
StatsAccepted(ab, pv) == FloatPositive(ab) /\ FloatPositive(pv)

\* on_user_stats_update(ACCOUNT_INDEX, stats)
on_user_stats_update(stats) ==
    LET ab == GetOrZero(stats.available_balance)
        pv == GetOrZero(stats.portfolio_value)
    IN
    /\ IF FloatRaises(ab) \/ FloatRaises(pv)
       THEN UNCHANGED capitalVars            \* except (ValueError, TypeError)
       ELSE IF StatsAccepted(ab, pv)
       THEN /\ available_capital' = Some(FloatValue(ab))
            /\ portfolio_value' = Some(FloatValue(pv))
            /\ account_state_received' = TRUE
       ELSE UNCHANGED capitalVars

\* lines 250-256: the size an account_all message reports for the tracked
\* market.  msg.entry is "absent" (no positions key, or no entry for the
\* market), "empty" (an entry that is falsy) or "present"; msg.position is
\* the entry's 'position' value.  Only called when float() does not raise.
NewSizeKeepOnAbsent(msg, current) ==
    IF msg.entry = "present"
    THEN FloatValue(GetOrZero(msg.position))
    ELSE current
NewSize(msg, current) ==
    IF msg.entry = "present"
    THEN FloatValue(GetOrZero(msg.position))
    ELSE 0

\* on_account_all_update(ACCOUNT_INDEX, data).  account_positions and
\* recent_trades are written here and read by nothing else; they are left out.
on_account_all_update(msg) ==
    /\ IF msg.entry = "present" /\ FloatRaises(GetOrZero(msg.position))
       THEN UNCHANGED positionVars           \* except (ValueError, TypeError)
       ELSE /\ current_position_size' = NewSize(msg, current_position_size)
            /\ account_all_received' = TRUE

\* An order-book snapshot: [bid, ask], each the best price of its side:
\* Num(p), or Absent (the side's list is empty), or Str (a price float()
\* rejects).
Book(b, a) == [bid |-> b, ask |-> a]
BothSides(book) == book.bid # Absent /\ book.ask # Absent
BookRaises(book) == BothSides(book) /\ (FloatRaises(book.bid) \/ FloatRaises(book.ask))
MidOf(book) == (FloatValue(book.bid) + FloatValue(book.ask)) \div 2

\* lines 168-171: the cached mid after a snapshot that does not raise
CachedMidAfter(book, cached) == IF BothSides(book) THEN Some(MidOf(book)) ELSE cached

\* get_current_mid_price()
get_current_mid_price(cached, age, book) ==
    IF cached # None /\ age < MidFreshWindow THEN cached
    ELSE IF book = None THEN None
    ELSE IF ~BothSides(Val(book)) THEN None
    ELSE Some(MidOf(Val(book)))

(***************************************************************************)
(* Initial state: main() at line 683, after the startup cancel-all, with   *)
(* the three stream tasks just created and last_order_book_update just set *)
(* to time.time() (line 677).  Every other global has its module-level     *)
(* value (lines 52-73); last_avellaneda_update = 0 is an age beyond the    *)
(* refresh interval.                                                       *)
(***************************************************************************)
\* The request the controller is awaiting the trading transport's reply to.
NoReq == [kind |-> "none", id |-> 0, side |-> "none", price |-> 0,
          amount |-> 0, reduce_only |-> FALSE]
CancelAllReq == [kind |-> "cancel_all", id |-> 0, side |-> "none", price |-> 0,
                 amount |-> 0, reduce_only |-> FALSE]
CreateReq(id, side, price, amount, ro) ==
    [kind |-> "create_order", id |-> id, side |-> side, price |-> price,
     amount |-> amount, reduce_only |-> ro]

AllMissing == [i \in 1..NumCandidates |-> FileOf("missing")]

InitWith(files) ==
    /\ REQUIRE_PARAMS \in BOOLEAN
    /\ latest_order_book = None
    /\ current_mid_price_cached = None
    /\ ob_age = 0
    /\ ws_connection_healthy = FALSE
    /\ order_book_received = FALSE
    /\ ws_task_done = FALSE
    /\ available_capital = None
    /\ portfolio_value = None
    /\ account_state_received = FALSE
    /\ current_position_size = 0
    /\ account_all_received = FALSE
    /\ avellaneda_params = None
    /\ avellaneda_age = AVELLANEDA_REFRESH_INTERVAL
    /\ param_files = files
    /\ pc = "wait_book"
    /\ order_side = "buy"
    /\ current_order_id = None
    /\ last_mid_price = None
    /\ current_mid_price = None
    /\ order_price = None
    /\ req = NoReq
    /\ ev = [op |-> "init"]

(***************************************************************************)
(* The Quote Pricing Engine on its own: calculate_order_price called with  *)
(* any mid and side, against any content of the candidate files and any    *)
(* age of the cache.                                                       *)
(***************************************************************************)
\* offsets a parameter file may hold
OffsetVals == { Num(20000), NumStr(30000), Num(-1), NaN, Inf, Str, Null }
\* contents of the candidates when several are present: the first two hold
\* anything from EarlyKinds, the last two are missing or hold a valid set
EarlyKinds == { FileOf("missing"), FileOf("badjson"),
                ParamsFile(Num(-1), Num(20000)),
                ParamsFile(Num(20000), Num(20000)) }
LateKinds == { FileOf("missing"), ParamsFile(Num(30000), Num(30000)) }
\* contents of the first candidate when it is the only one present
AllKinds == { FileOf("ioerror"), FileOf("badjson"), FileOf("empty"), FileOf("nostruct") }
            \cup { ParamsFile(a, b) : a \in OffsetVals, b \in OffsetVals }
PricingFiles ==
    { f \in [1..NumCandidates -> EarlyKinds \cup LateKinds] :
        \A i \in 1..NumCandidates :
            f[i] \in (IF 2 * i <= NumCandidates THEN EarlyKinds ELSE LateKinds) }
    \cup { [AllMissing EXCEPT ![1] = k] : k \in AllKinds }
\* ages of the cache around the refresh interval
PricingAges == { 0, AVELLANEDA_REFRESH_INTERVAL - 1, AVELLANEDA_REFRESH_INTERVAL }
PricingMids == { 1000, 1001 }

\* calculate_order_price(mid, side), load_avellaneda_parameters included
calculate_order_price(mid, side) ==
    LET ld == load_avellaneda_parameters(avellaneda_params, avellaneda_age, param_files) IN
    /\ avellaneda_params' = ld.params
    /\ avellaneda_age' = ld.age
    /\ order_price' = PriceFrom(ld, REQUIRE_PARAMS, mid, side)
    /\ ev' = [op |-> "calculate_order_price", mid |-> mid, side |-> side,
              ok |-> ld.ok, prev_params |-> avellaneda_params,
              prev_age |-> avellaneda_age]

PricingCall ==
    /\ \E mid \in PricingMids, side \in {"buy", "sell"} : calculate_order_price(mid, side)
    /\ UNCHANGED << configVars, marketVars, capitalVars, positionVars, param_files,
                    pc, order_side, current_order_id, last_mid_price,
                    current_mid_price, sleep_left, req >>

\* one candidate file is created, rewritten or removed by its external producer
WriteParamFile ==
    /\ \E i \in 1..NumCandidates, k \in EarlyKinds \cup LateKinds \cup AllKinds :
          /\ param_files' = [param_files EXCEPT ![i] = k]
          /\ param_files' \in PricingFiles
          /\ param_files' # param_files
    /\ ev' = [op |-> "write_param_files"]
    /\ UNCHANGED << configVars, marketVars, capitalVars, positionVars, paramVars, ctrlVars >>

\* time passes between two calls
PricingClock ==
    /\ avellaneda_age' \in { a \in PricingAges : a > avellaneda_age }
    /\ ev' = [op |-> "clock"]
    /\ UNCHANGED << configVars, marketVars, capitalVars, positionVars,
                    avellaneda_params, param_files, ctrlVars >>

InitPricing == InitWith(AllMissing) /\ sleep_left = 0
NextPricing == PricingCall \/ WriteParamFile \/ PricingClock
SpecPricing == InitPricing /\ [][NextPricing]_vars

(***************************************************************************)
(* The capital stream consumer on its own.                                 *)
(***************************************************************************)
StatsVals == { Absent, Num(-1), Num(0), Num(1000), NumStr(2000), NaN, Str, Null }
StatsMsgs == [available_balance : StatsVals, portfolio_value : StatsVals]

UserStatsMessage ==
    /\ \E stats \in StatsMsgs :
         /\ on_user_stats_update(stats)
         /\ ev' = [op |-> "on_user_stats_update", stats |-> stats,
                   prev_capital |-> available_capital,
                   prev_portfolio |-> portfolio_value,
                   prev_received |-> account_state_received]
    /\ UNCHANGED << configVars, marketVars, positionVars, paramVars, param_files, ctrlVars >>

InitStats == InitWith(AllMissing) /\ sleep_left = 0
NextStats == UserStatsMessage
SpecStats == InitStats /\ [][NextStats]_vars

(***************************************************************************)
(* The position stream consumer on its own.                                *)
(***************************************************************************)
PositionVals == { Absent, Num(-15), Num(-1), Num(0), Num(1), Num(14), Num(15), Num(16),
                  NumStr(15), NumStr(-1), Str, Null }
AccountMsgs ==
    { [entry |-> "absent", position |-> Absent], [entry |-> "empty", position |-> Absent] }
    \cup { [entry |-> "present", position |-> x] : x \in PositionVals }

AccountAllMessage ==
    /\ \E msg \in AccountMsgs :
         /\ on_account_all_update(msg)
         /\ ev' = [op |-> "on_account_all_update", msg |-> msg,
                   prev_size |-> current_position_size]
    /\ UNCHANGED << configVars, marketVars, capitalVars, paramVars, param_files, ctrlVars >>

InitAccount == InitWith(AllMissing) /\ sleep_left = 0
NextAccount == AccountAllMessage
SpecAccount == InitAccount /\ [][NextAccount]_vars

(***************************************************************************)
(* The program: main() from line 683 on, market_making_loop, the stream    *)
(* callbacks and the trading transport's replies.                          *)
(***************************************************************************)
\* client order ids are 0 .. MaxOrderId (int(time.time() * 1e6) % 1e6)
MaxOrderId == 0
OrderIds == 0..MaxOrderId
\* BASE_AMOUNT = 0.047, in 1/PosScale
BASE_AMOUNT == 47
\* CAPITAL_USAGE_PERCENT = 0.99, in percent
UsagePct == 99
\* SAFETY_MARGIN_PERCENT = 0.01, in percent
SafetyPct == 1
\* the 60 second limit of the wait for the startup position to close
CloseWaitLimit == 60
\* the three classes of the order book's age, each named by its least age
AgeStale == HealthStaleLimit + 1
AgeClass(x) == IF x < MidFreshWindow THEN 0
               ELSE IF x <= HealthStaleLimit THEN MidFreshWindow
               ELSE AgeStale
AgeHigh(c) == IF c = 0 THEN MidFreshWindow - 1
              ELSE IF c = MidFreshWindow THEN HealthStaleLimit
              ELSE AgeStale
\* the classes an age of class c can be in after d more seconds
AgesAfter(c, d) == { AgeClass(x) : x \in (c + d)..(AgeHigh(c) + d) }

\* a reply of the trading transport: acknowledged, an error value, or an
\* exception raised by the call
Outcomes == {"ack", "err", "exc"}

\* a cancel_order whose try block does not catch the transport's exception
cancel_orderUncaught(id, outcome) ==
    [ok |-> outcome = "ack", raised |-> outcome = "exc",
     id |-> IF outcome = "ack" THEN None ELSE id]

\* cancel_order(client, order_id) once cancel_all_orders replied with outcome,
\* the record being id before: the result, whether an exception leaves the
\* function, and current_order_id after
cancel_order(id, outcome) ==
    [ok |-> outcome = "ack", raised |-> FALSE,
     id |-> IF outcome = "ack" THEN None ELSE id]

\* a place_order that records the order whatever the transport replied
place_orderAlwaysRecords(id, oid, outcome) ==
    [ok |-> outcome = "ack", raised |-> FALSE, id |-> Some(oid)]

\* place_order once create_order replied for the order oid
place_order(id, oid, outcome) ==
    [ok |-> outcome = "ack", raised |-> FALSE,
     id |-> IF outcome = "ack" THEN Some(oid) ELSE id]

\* abs(current_position_size) < 1e-9, both sides divided by PosScale
NearZero(pos) == Abs(pos) * (NearZeroInv \div PosScale) < 1
\* position * mid >= 15.0 / < 15.0
NotionalAtLeastMin(pos, mid) == pos * mid >= MinNotional * PosScale

\* calculate_dynamic_base_amount(mid), USE_DYNAMIC_SIZING = True; the
\* quotient is cut to a whole number of 1/PosScale
calculate_dynamic_base_amount(capital, mid) ==
    IF capital = None \/ Val(capital) <= 0 THEN BASE_AMOUNT
    ELSE IF mid > 0
    THEN Max((Val(capital) * (100 - SafetyPct) * UsagePct * PosScale) \div (100 * 100 * mid), 1)
    ELSE BASE_AMOUNT

\* lines 550-561: base_amt of the iteration
\* a sell size that ignores the notional value of the inventory
SellAmountAnyInventory(pos, mid) ==
    IF pos > 0 THEN pos ELSE 0

SellAmount(pos, mid) ==
    IF pos > 0
    THEN IF NotionalAtLeastMin(pos, mid) THEN pos ELSE 0
    ELSE 0
BaseAmount(side, capital, pos, mid) ==
    IF side = "buy" THEN calculate_dynamic_base_amount(capital, mid)
    ELSE SellAmount(pos, mid)

\* line 528: price_changed
PriceChangedAtThreshold(mid, last) ==
    last = None \/ Abs(mid - Val(last)) * PriceChangeInv >= Val(last)
PriceChanged(mid, last) ==
    last = None \/ Abs(mid - Val(last)) * PriceChangeInv > Val(last)

\* lines 585-597: the side after the flip decision; mid is the local
\* current_mid_price of the iteration (None reads as notional 0)
SideAfterFlipNoNotional(side, pos, mid) ==
    IF side = "buy" /\ pos > 0 THEN "sell"
    ELSE IF side = "sell" /\ NearZero(pos) THEN "buy"
    ELSE side
SideAfterFlip(side, pos, mid) ==
    LET position_value_usd == IF mid # None /\ Val(mid) # 0 THEN pos * Val(mid) ELSE 0 IN
    IF side = "buy" /\ pos > 0 THEN "sell"
    ELSE IF side = "sell" /\ NearZero(pos) THEN "buy"
    ELSE IF side = "sell" /\ pos > 0 /\ position_value_usd < MinNotional * PosScale THEN "buy"
    ELSE side

\* check_websocket_health(): [ok: the result, flag: ws_connection_healthy after]
\* a health check that trusts the healthy flag once the timestamp is recent
check_websocket_healthFlagOnly(age, done, flag) ==
    IF age > HealthStaleLimit THEN [ok |-> FALSE, flag |-> FALSE]
    ELSE [ok |-> flag, flag |-> flag]

check_websocket_health(age, done, flag) ==
    IF age > HealthStaleLimit THEN [ok |-> FALSE, flag |-> FALSE]
    ELSE IF done THEN [ok |-> FALSE, flag |-> FALSE]
    ELSE [ok |-> flag, flag |-> flag]

\* the controller's globals and locals as one record
Ctrl == [pc |-> pc, side |-> order_side, id |-> current_order_id,
         last |-> last_mid_price, mid |-> current_mid_price,
         price |-> order_price, sleep |-> sleep_left, req |-> req]
SetCtrl(c) ==
    /\ pc' = c.pc
    /\ order_side' = c.side
    /\ current_order_id' = c.id
    /\ last_mid_price' = c.last
    /\ current_mid_price' = c.mid
    /\ order_price' = c.price
    /\ sleep_left' = c.sleep
    /\ req' = c.req

\* a backoff that falls back to the buy side
SleepThenRetryResetSide(c, d) ==
    [c EXCEPT !.pc = "sleep_retry", !.sleep = d, !.req = NoReq,
              !.mid = None, !.price = None, !.side = "buy"]

\* asyncio.sleep(d), then the next iteration; the iteration's locals are dead
SleepThenRetry(c, d) ==
    [c EXCEPT !.pc = "sleep_retry", !.sleep = d, !.req = NoReq,
              !.mid = None, !.price = None]
\* asyncio.sleep(ORDER_TIMEOUT)
SleepTimeout(c) ==
    [c EXCEPT !.pc = "sleep_timeout", !.sleep = ORDER_TIMEOUT, !.req = NoReq,
              !.price = None]

\* lines 548-573: with the order record c.id, place an order or go to the
\* reconciliation sleep
PlaceDecisionUnguarded(c, oid, capital, pos) ==
    LET amt == BaseAmount(c.side, capital, pos, Val(c.mid)) IN
    IF amt > 0
    THEN [c EXCEPT !.pc = "place_wait", !.sleep = 0, !.price = None,
                   !.req = CreateReq(oid, c.side, Val(c.price), amt, c.side = "sell")]
    ELSE SleepTimeout(c)
PlaceDecision(c, oid, capital, pos) ==
    IF c.id = None
    THEN LET amt == BaseAmount(c.side, capital, pos, Val(c.mid)) IN
         IF amt > 0
         THEN [c EXCEPT !.pc = "place_wait", !.sleep = 0, !.price = None,
                        !.req = CreateReq(oid, c.side, Val(c.price), amt, c.side = "sell")]
         ELSE SleepTimeout(c)
    ELSE SleepTimeout(c)

\* lines 522-573, up to the first await: read the mid, price the quote,
\* cancel on a price change, place.  Leaves the market cache alone.
QuoteStep(oid) ==
    LET mid == get_current_mid_price(current_mid_price_cached, ob_age, latest_order_book) IN
    IF mid = None
    THEN /\ SetCtrl(SleepThenRetry(Ctrl, 2))
         /\ UNCHANGED paramVars
         /\ ev' = [op |-> "no_mid"]
    ELSE LET ld == load_avellaneda_parameters(avellaneda_params, avellaneda_age, param_files)
             price == PriceFrom(ld, REQUIRE_PARAMS, Val(mid), order_side)
             changed == PriceChanged(Val(mid), last_mid_price)
             c == [Ctrl EXCEPT !.mid = mid, !.price = price]
         IN
         /\ avellaneda_params' = ld.params
         /\ avellaneda_age' = ld.age
         /\ IF price = None
            THEN /\ SetCtrl(SleepThenRetry(c, 3))
                 /\ ev' = [op |-> "no_quote", had_order |-> current_order_id # None,
                           mid |-> mid, last |-> last_mid_price,
                           cancel_sent |-> FALSE,
                           restarted |-> pc = "restart_wait"]
            ELSE IF current_order_id # None /\ changed
            THEN /\ SetCtrl([c EXCEPT !.pc = "cancel1_wait", !.sleep = 0,
                                      !.req = CancelAllReq])
                 /\ ev' = [op |-> "quote_step", had_order |-> TRUE, mid |-> mid,
                           last |-> last_mid_price, cancel_sent |-> TRUE,
                           restarted |-> pc = "restart_wait"]
            ELSE /\ SetCtrl(PlaceDecision(c, oid, available_capital, current_position_size))
                 /\ ev' = [op |-> "quote_step", had_order |-> current_order_id # None,
                           mid |-> mid, last |-> last_mid_price,
                           cancel_sent |-> FALSE,
                           restarted |-> pc = "restart_wait"]

\* lines 585-599: the flip decision and the short sleep, with order record id
\* left by the timeout cancel, whose reply was outcome ("none": none was sent)
FlipStep(id, outcome) ==
    /\ SetCtrl(SleepThenRetry(
          [Ctrl EXCEPT !.id = id,
                       !.side = SideAfterFlip(order_side, current_position_size,
                                              current_mid_price)], 2))
    /\ ev' = [op |-> "side_flip", prev_side |-> order_side,
              position |-> current_position_size, mid |-> current_mid_price,
              outcome |-> outcome]

\* ---- startup (main, lines 684-741) ----

\* wait_for(order_book_received.wait(), 30) returns
StartupBookReady ==
    /\ pc = "wait_book" /\ order_book_received
    /\ SetCtrl([Ctrl EXCEPT !.pc = "wait_capital", !.sleep = ReadyTimeout])
    /\ ev' = [op |-> "startup_ready"]
    /\ UNCHANGED << configVars, marketVars, capitalVars, positionVars, paramVars, param_files >>

\* wait_for(account_state_received.wait(), 30) returns
StartupCapitalReady ==
    /\ pc = "wait_capital" /\ account_state_received
    /\ SetCtrl([Ctrl EXCEPT !.pc = "wait_position", !.sleep = ReadyTimeout])
    /\ ev' = [op |-> "startup_ready"]
    /\ UNCHANGED << configVars, marketVars, capitalVars, positionVars, paramVars, param_files >>

\* a side selection that starts on the buy side when no mid is available
StartupSideBuyWithoutMid(pos, mid) ==
    IF pos > 0
    THEN IF mid # None /\ Val(mid) # 0
         THEN IF ~NotionalAtLeastMin(pos, Val(mid)) THEN "buy" ELSE "sell"
         ELSE "buy"
    ELSE "buy"

\* lines 698-738 once the position is known: the side the loop starts on
StartupSide(pos, mid) ==
    IF pos > 0
    THEN IF mid # None /\ Val(mid) # 0
         THEN IF ~NotionalAtLeastMin(pos, Val(mid)) THEN "buy" ELSE "sell"
         ELSE "sell"
    ELSE "buy"

\* wait_for(account_all_received.wait(), 30) returns; lines 697-741 up to
\* the next await
StartupPositionReady ==
    /\ pc = "wait_position" /\ account_all_received
    /\ LET mid == get_current_mid_price(current_mid_price_cached, ob_age, latest_order_book)
           pos == current_position_size
       IN
       \E CLOSE_LONG_ON_STARTUP \in BOOLEAN :
       IF CLOSE_LONG_ON_STARTUP
       THEN IF pos > 0 /\ mid # None /\ Val(mid) # 0
            THEN \E oid \in OrderIds :
                   /\ SetCtrl([Ctrl EXCEPT !.pc = "close_wait", !.sleep = 0, !.mid = mid,
                          !.req = CreateReq(oid, "sell", Val(mid) * (PriceDen + SpreadNum),
                                            Abs(pos), TRUE)])
                   /\ ev' = [op |-> "close_long_position"]
            ELSE /\ SetCtrl([Ctrl EXCEPT !.pc = "loop_top", !.sleep = 0])
                 /\ ev' = [op |-> "startup_done"]
       ELSE /\ SetCtrl([Ctrl EXCEPT !.pc = "loop_top", !.sleep = 0,
                                    !.side = IF pos > 0 THEN StartupSide(pos, mid)
                                             ELSE order_side])
            /\ ev' = [op |-> "startup_side", position |-> pos, mid |-> mid]
    /\ UNCHANGED << configVars, marketVars, capitalVars, positionVars, paramVars, param_files >>

\* a readiness wait that proceeds to the loop although its signal is missing
StartupTimeoutIgnored ==
    /\ \/ pc = "wait_book" /\ ~order_book_received
       \/ pc = "wait_capital" /\ ~account_state_received
       \/ pc = "wait_position" /\ ~account_all_received
    /\ ob_age' \in AgesAfter(ob_age, sleep_left)
    /\ SetCtrl([Ctrl EXCEPT !.pc = "loop_top", !.sleep = 0])
    /\ ev' = [op |-> "startup_timeout"]
    /\ UNCHANGED << configVars, latest_order_book, current_mid_price_cached,
                    ws_connection_healthy, order_book_received, ws_task_done,
                    capitalVars, positionVars, paramVars, param_files >>

\* a readiness wait_for raises TimeoutError: the finally block
StartupTimeout ==
    /\ \/ pc = "wait_book" /\ ~order_book_received
       \/ pc = "wait_capital" /\ ~account_state_received
       \/ pc = "wait_position" /\ ~account_all_received
    /\ ob_age' \in AgesAfter(ob_age, sleep_left)
    /\ SetCtrl([Ctrl EXCEPT !.pc = "cleanup", !.sleep = 0])
    /\ ev' = [op |-> "startup_timeout"]
    /\ UNCHANGED << configVars, latest_order_book, current_mid_price_cached,
                    ws_connection_healthy, order_book_received, ws_task_done,
                    capitalVars, positionVars, paramVars, param_files >>

\* close_long_position's create_order returns (lines 152-160), then lines
\* 704-717 up to the first sleep(1)
CloseReply ==
    /\ pc = "close_wait"
    /\ \E outcome \in Outcomes :
         /\ IF outcome = "ack"
            THEN SetCtrl([Ctrl EXCEPT
                     !.id = Some(req.id), !.side = "sell", !.last = current_mid_price,
                     !.mid = None, !.req = NoReq,
                     !.pc = IF NearZero(current_position_size) THEN "loop_top"
                            ELSE "close_poll",
                     !.sleep = IF NearZero(current_position_size) THEN 0
                               ELSE CloseWaitLimit])
            ELSE SetCtrl([Ctrl EXCEPT !.pc = "loop_top", !.mid = None, !.req = NoReq])
         /\ ev' = [op |-> "close_reply", ok |-> outcome = "ack"]
    /\ UNCHANGED << configVars, marketVars, capitalVars, positionVars, paramVars, param_files >>

\* a poll of lines 712-717 sees the position closed
ClosePollConfirmed ==
    /\ pc = "close_poll" /\ NearZero(current_position_size)
    /\ ob_age' \in {ob_age} \cup AgesAfter(ob_age, sleep_left)
    /\ SetCtrl([Ctrl EXCEPT !.pc = "loop_top", !.sleep = 0])
    /\ ev' = [op |-> "close_confirmed"]
    /\ UNCHANGED << configVars, latest_order_book, current_mid_price_cached,
                    ws_connection_healthy, order_book_received, ws_task_done,
                    capitalVars, positionVars, paramVars, param_files >>

\* the 60 seconds run out with the position still open: return (line 721)
ClosePollTimeout ==
    /\ pc = "close_poll" /\ ~NearZero(current_position_size)
    /\ ob_age' \in AgesAfter(ob_age, sleep_left)
    /\ SetCtrl([Ctrl EXCEPT !.pc = "cleanup", !.sleep = 0])
    /\ ev' = [op |-> "close_timeout"]
    /\ UNCHANGED << configVars, latest_order_book, current_mid_price_cached,
                    ws_connection_healthy, order_book_received, ws_task_done,
                    capitalVars, positionVars, paramVars, param_files >>

\* ---- market_making_loop (lines 513-606) ----

\* the top of an iteration: the health check, then either the restart
\* (lines 485-500, up to the wait) or the quote step
\* a restart that waits on the event as the old stream left it
restart_websocketNoClear ==
    /\ ws_connection_healthy' = FALSE
    /\ order_book_received' = order_book_received
    /\ ws_task_done' = FALSE
    /\ SetCtrl([Ctrl EXCEPT !.pc = "restart_wait", !.sleep = RestartTimeout])

\* restart_websocket() up to its wait_for (lines 485-499): the old task is
\* cancelled, the flag and the event are cleared, a new task is started
restart_websocket ==
    /\ ws_connection_healthy' = FALSE
    /\ order_book_received' = FALSE
    /\ ws_task_done' = FALSE
    /\ SetCtrl([Ctrl EXCEPT !.pc = "restart_wait", !.sleep = RestartTimeout])

LoopIterate ==
    /\ pc = "loop_top"
    /\ LET h == check_websocket_health(ob_age, ws_task_done, ws_connection_healthy) IN
       IF ~h.ok
       THEN /\ restart_websocket
            /\ ev' = [op |-> "restart_websocket", stale |-> ob_age > HealthStaleLimit,
                      done |-> ws_task_done, flag |-> ws_connection_healthy]
            /\ UNCHANGED << latest_order_book, current_mid_price_cached, ob_age, paramVars >>
       ELSE /\ ws_connection_healthy' = h.flag
            /\ \E oid \in OrderIds : QuoteStep(oid)
            /\ UNCHANGED << latest_order_book, current_mid_price_cached, ob_age,
                            order_book_received, ws_task_done >>
    /\ UNCHANGED << configVars, capitalVars, positionVars, param_files >>

\* an iteration that ends in market_making_loop's handler although it raised
RestartRaisesUncaught ==
    /\ pc = "loop_top"
    /\ ~check_websocket_health(ob_age, ws_task_done, ws_connection_healthy).ok
    /\ ~ws_task_done
    /\ ws_task_done' = TRUE
    /\ ws_connection_healthy' = FALSE
    /\ SetCtrl([Ctrl EXCEPT !.pc = "cleanup", !.sleep = 0])
    /\ \E stream \in BOOLEAN : ev' = [op |-> "loop_error", stream |-> stream]
    /\ UNCHANGED << configVars, latest_order_book, current_mid_price_cached, ob_age,
                    order_book_received, capitalVars, positionVars, paramVars,
                    param_files >>

\* an error handler that leaves the stream task running
RestartRaisesTaskAlive ==
    /\ pc = "loop_top"
    /\ ~check_websocket_health(ob_age, ws_task_done, ws_connection_healthy).ok
    /\ ~ws_task_done
    /\ ws_task_done' = FALSE
    /\ ws_connection_healthy' = FALSE
    /\ SetCtrl(SleepThenRetry(Ctrl, 5))
    /\ \E stream \in BOOLEAN : ev' = [op |-> "loop_error", stream |-> stream]
    /\ UNCHANGED << configVars, latest_order_book, current_mid_price_cached, ob_age,
                    order_book_received, capitalVars, positionVars, paramVars,
                    param_files >>

\* the health check is unhealthy with the stream task still running, and
\* awaiting the cancelled task (lines 488-492) raises the error the task ended
\* with, which is not a CancelledError: the handler of lines 601-606 logs it,
\* clears the flag when its text names the stream, and sleeps 5 seconds.
\* stream: the text of the error contains "websocket"
RestartRaises ==
    /\ pc = "loop_top"
    /\ ~check_websocket_health(ob_age, ws_task_done, ws_connection_healthy).ok
    /\ ~ws_task_done
    /\ ws_task_done' = TRUE
    /\ ws_connection_healthy' = FALSE
    /\ SetCtrl(SleepThenRetry(Ctrl, 5))
    /\ \E stream \in BOOLEAN : ev' = [op |-> "loop_error", stream |-> stream]
    /\ UNCHANGED << configVars, latest_order_book, current_mid_price_cached, ob_age,
                    order_book_received, capitalVars, positionVars, paramVars,
                    param_files >>

\* restart_websocket's wait_for returns True; the iteration goes on
RestartReady ==
    /\ pc = "restart_wait" /\ order_book_received
    /\ \E oid \in OrderIds : QuoteStep(oid)
    /\ UNCHANGED << configVars, marketVars, capitalVars, positionVars, param_files >>

\* an iteration that goes on to quote although the restart timed out
RestartTimedOutGoesOn ==
    /\ pc = "restart_wait" /\ ~order_book_received
    /\ \E oid \in OrderIds : QuoteStep(oid)
    /\ UNCHANGED << configVars, marketVars, capitalVars, positionVars, param_files >>

\* restart_websocket's wait_for times out: sleep(10) and continue
RestartTimedOut ==
    /\ pc = "restart_wait" /\ ~order_book_received
    /\ ob_age' \in AgesAfter(ob_age, sleep_left)
    /\ SetCtrl(SleepThenRetry(Ctrl, 10))
    /\ ev' = [op |-> "restart_failed"]
    /\ UNCHANGED << configVars, latest_order_book, current_mid_price_cached,
                    ws_connection_healthy, order_book_received, ws_task_done,
                    capitalVars, positionVars, paramVars, param_files >>

\* cancel_order of line 544 returns; lines 548-573
Cancel1Reply ==
    /\ pc = "cancel1_wait"
    /\ \E outcome \in Outcomes, oid \in OrderIds :
         /\ SetCtrl(PlaceDecision(
               [Ctrl EXCEPT !.id = cancel_order(current_order_id, outcome).id],
               oid, available_capital, current_position_size))
         /\ ev' = [op |-> "cancel_reply", outcome |-> outcome]
    /\ UNCHANGED << configVars, marketVars, capitalVars, positionVars, paramVars, param_files >>

\* place_order's create_order returns (lines 438-446), then lines 566-577
PlaceReply ==
    /\ pc = "place_wait"
    /\ \E outcome \in Outcomes :
         /\ IF place_order(current_order_id, req.id, outcome).ok
            THEN SetCtrl(SleepTimeout(
                    [Ctrl EXCEPT !.id = place_order(current_order_id, req.id, outcome).id,
                                 !.last = current_mid_price]))
            ELSE SetCtrl(SleepThenRetry(
                    [Ctrl EXCEPT !.id = place_order(current_order_id, req.id, outcome).id],
                    5))
         /\ ev' = [op |-> "place_reply", ok |-> outcome = "ack"]
    /\ UNCHANGED << configVars, marketVars, capitalVars, positionVars, paramVars, param_files >>

\* a retry sleep (2, 3, 5 or 10 seconds) ends
SleepRetryWake ==
    /\ pc = "sleep_retry"
    /\ ob_age' \in AgesAfter(ob_age, sleep_left)
    /\ avellaneda_age' \in {avellaneda_age, AVELLANEDA_REFRESH_INTERVAL}
    /\ SetCtrl([Ctrl EXCEPT !.pc = "loop_top", !.sleep = 0])
    /\ ev' = [op |-> "wake", after_error |-> ev.op = "loop_error",
              after_stream_error |-> (ev.op = "loop_error" /\ ev.stream)]
    /\ UNCHANGED << configVars, latest_order_book, current_mid_price_cached,
                    ws_connection_healthy, order_book_received, ws_task_done,
                    capitalVars, positionVars, avellaneda_params, param_files >>

\* sleep(ORDER_TIMEOUT) ends: lines 579-581, or lines 585-599 when no order
\* is recorded
TimeoutWake ==
    /\ pc = "sleep_timeout"
    /\ ob_age' \in AgesAfter(ob_age, sleep_left)
    /\ avellaneda_age' \in {avellaneda_age, AVELLANEDA_REFRESH_INTERVAL}
    /\ IF current_order_id # None
       THEN /\ SetCtrl([Ctrl EXCEPT !.pc = "cancel2_wait", !.sleep = 0,
                                    !.req = CancelAllReq])
            /\ ev' = [op |-> "timeout_cancel"]
       ELSE FlipStep(current_order_id, "none")
    /\ UNCHANGED << configVars, latest_order_book, current_mid_price_cached,
                    ws_connection_healthy, order_book_received, ws_task_done,
                    capitalVars, positionVars, avellaneda_params, param_files >>

\* cancel_order of line 581 returns; lines 585-599
Cancel2Reply ==
    /\ pc = "cancel2_wait"
    /\ \E outcome \in Outcomes :
         FlipStep(cancel_order(current_order_id, outcome).id, outcome)
    /\ UNCHANGED << configVars, marketVars, capitalVars, positionVars, paramVars, param_files >>

\* ---- shutdown (lines 745-778, 786-789) ----

\* awaits at which the main task is suspended with the streams running
Suspended ==
    pc \in {"wait_book", "wait_capital", "wait_position", "close_wait", "close_poll",
            "restart_wait", "cancel1_wait", "place_wait", "sleep_retry",
            "sleep_timeout", "cancel2_wait"}

\* shutdown_handler cancels the main task: CancelledError at its await
Shutdown ==
    /\ Suspended
    /\ SetCtrl([Ctrl EXCEPT !.pc = "cleanup", !.sleep = 0, !.mid = None, !.price = None])
    /\ ev' = [op |-> "shutdown"]
    /\ UNCHANGED << configVars, marketVars, capitalVars, positionVars, paramVars, param_files >>

\* the finally block up to cancel_order (lines 748-769)
CleanupStart ==
    /\ pc = "cleanup"
    /\ IF current_order_id # None
       THEN SetCtrl([Ctrl EXCEPT !.pc = "cleanup_cancel_wait", !.req = CancelAllReq])
       ELSE SetCtrl([Ctrl EXCEPT !.pc = "cleanup_close", !.req = NoReq])
    /\ ev' = [op |-> "cleanup"]
    /\ UNCHANGED << configVars, marketVars, capitalVars, positionVars, paramVars, param_files >>

\* the cleanup's cancel_order returns; lines 770-776 up to client.close()
CleanupCancelReply ==
    /\ pc = "cleanup_cancel_wait"
    /\ \E outcome \in Outcomes :
         /\ SetCtrl([Ctrl EXCEPT !.pc = "cleanup_close", !.req = NoReq,
                        !.id = cancel_order(current_order_id, outcome).id])
         /\ ev' = [op |-> "cleanup_cancel_reply", outcome |-> outcome]
    /\ UNCHANGED << configVars, marketVars, capitalVars, positionVars, paramVars, param_files >>

\* client.close() and api_client.close() return (lines 776-778)
CleanupClose ==
    /\ pc = "cleanup_close"
    /\ SetCtrl([Ctrl EXCEPT !.pc = "done"])
    /\ ev' = [op |-> "closed"]
    /\ UNCHANGED << configVars, marketVars, capitalVars, positionVars, paramVars, param_files >>

\* a second signal while main is in the finally block: shutdown_handler sees
\* main_task not done and cancels it again (lines 786-789).  At the awaits of
\* the cancelled stream tasks the CancelledError is absorbed by the except
\* clauses (lines 753, 759, 765, 774) and nothing changes; at cancel_order
\* (which catches Exception only) and at the close calls it leaves main
SecondSignal ==
    /\ pc \in {"cleanup_cancel_wait", "cleanup_close"}
    /\ SetCtrl([Ctrl EXCEPT !.pc = "interrupted", !.req = NoReq])
    /\ ev' = [op |-> "cleanup_interrupted", at |-> pc]
    /\ UNCHANGED << configVars, marketVars, capitalVars, positionVars, paramVars, param_files >>

\* ---- the streams and the outside world ----

\* what remains of the current sleep when a snapshot arrives during it
Residuals(left) == {left} \cup { r \in {0, AgeStale} : r < left }

\* the three readiness waits of main
StartupWaits == {"wait_book", "wait_capital", "wait_position"}

\* the signal the current readiness wait is waiting for
WaitedSignal ==
    CASE pc = "wait_book" -> order_book_received
      [] pc = "wait_capital" -> account_state_received
      [] pc = "wait_position" -> account_all_received
      [] OTHER -> TRUE

\* main waits for an event that is already set: it resumes before any
\* time passes, though callbacks that are ready may still run first
EventWaitOver ==
    \/ pc \in StartupWaits /\ WaitedSignal
    \/ pc = "restart_wait" /\ order_book_received

LoopBooks == { Book(Num(998), Num(1000)), Book(Num(999), Num(1001)),
               Book(Num(1000), Num(1002)), Book(Str, Num(1001)) }

\* the order-book stream delivers a snapshot from books
OrderBookMessageFrom(books) ==
    /\ Suspended /\ ~ws_task_done
    /\ \E book \in books,
          left \in (IF EventWaitOver THEN {sleep_left} ELSE Residuals(sleep_left)) :
         /\ sleep_left' = left
         /\ IF BookRaises(book)
            THEN /\ ws_connection_healthy' = FALSE
                 /\ ob_age' \in AgesAfter(ob_age, sleep_left - left)
                 /\ UNCHANGED << latest_order_book, current_mid_price_cached,
                                 order_book_received >>
            ELSE /\ current_mid_price_cached' = CachedMidAfter(book, current_mid_price_cached)
                 /\ latest_order_book' = Some(book)
                 /\ ws_connection_healthy' = TRUE
                 /\ ob_age' = 0
                 /\ order_book_received' = TRUE
    /\ UNCHANGED << configVars, ws_task_done, capitalVars, positionVars, paramVars,
                    param_files, pc, order_side, current_order_id, last_mid_price,
                    current_mid_price, order_price, req, ev >>

OrderBookMessage == OrderBookMessageFrom(LoopBooks)

\* the order-book client's run_async returns or raises
WsTaskEnds ==
    /\ Suspended /\ ~ws_task_done
    /\ ws_task_done' = TRUE
    /\ UNCHANGED << ev, configVars, latest_order_book, current_mid_price_cached, ob_age,
                    ws_connection_healthy, order_book_received, capitalVars,
                    positionVars, paramVars, param_files, ctrlVars >>

LoopStats == { [available_balance |-> Num(100), portfolio_value |-> Num(100)],
               [available_balance |-> Num(0), portfolio_value |-> Num(100)] }

\* the user_stats stream delivers an update
LoopUserStatsMessage ==
    /\ Suspended
    /\ \E stats \in LoopStats : on_user_stats_update(stats)
    /\ UNCHANGED << ev, configVars, marketVars, positionVars, paramVars, param_files, ctrlVars >>

LoopAccountMsgs == { [entry |-> "absent", position |-> Absent],
                     [entry |-> "present", position |-> Num(14)],
                     [entry |-> "present", position |-> Num(15)],
                     [entry |-> "present", position |-> Num(-15)] }

\* an account callback that drops the order record when it sees no position
LoopAccountAllMessageClearsOrder ==
    /\ Suspended
    /\ \E msg \in LoopAccountMsgs : on_account_all_update(msg)
    /\ current_order_id' = IF current_position_size' = 0 THEN None ELSE current_order_id
    /\ UNCHANGED << ev, configVars, marketVars, capitalVars, paramVars, param_files,
                    pc, order_side, last_mid_price, current_mid_price, order_price,
                    sleep_left, req >>

\* the account_all stream delivers an update
LoopAccountAllMessage ==
    /\ Suspended
    /\ \E msg \in LoopAccountMsgs : on_account_all_update(msg)
    /\ UNCHANGED << ev, configVars, marketVars, capitalVars, paramVars, param_files, ctrlVars >>

LoopFiles == { AllMissing,
               [AllMissing EXCEPT ![1] = ParamsFile(Num(20000), Num(30000))] }

\* the parameter file is rewritten by its external producer
LoopWriteParamFile ==
    /\ Suspended
    /\ param_files' \in LoopFiles \ {param_files}
    /\ UNCHANGED << ev, configVars, marketVars, capitalVars, positionVars, paramVars, ctrlVars >>

Init == InitWith(AllMissing) /\ sleep_left = ReadyTimeout

Next ==
    \/ StartupBookReady \/ StartupCapitalReady \/ StartupPositionReady \/ StartupTimeout
    \/ CloseReply \/ ClosePollConfirmed \/ ClosePollTimeout
    \/ LoopIterate \/ RestartRaises \/ RestartReady \/ RestartTimedOut
    \/ Cancel1Reply \/ PlaceReply \/ SleepRetryWake \/ TimeoutWake \/ Cancel2Reply
    \/ Shutdown \/ CleanupStart \/ CleanupCancelReply \/ CleanupClose \/ SecondSignal
    \/ OrderBookMessage \/ WsTaskEnds \/ LoopUserStatsMessage \/ LoopAccountAllMessage
    \/ LoopWriteParamFile

Spec == Init /\ [][Next]_vars

(***************************************************************************)
(* place_order and cancel_order on their own: called in any order, with    *)
(* or without an order recorded, against every reply of the transport.     *)
(***************************************************************************)
\* consecutive calls of cancel_order that are counted
MaxCalls == 3

OrdersPlaceCall ==
    /\ req = NoReq
    /\ \E oid \in OrderIds, side \in {"buy", "sell"},
          price \in {1000 * (PriceDen - SpreadNum), 1000 * (PriceDen + SpreadNum)},
          amount \in {15, BASE_AMOUNT, 98} :
          req' = CreateReq(oid, side, price, amount, side = "sell")
    /\ ev' = [op |-> "place_call"]
    /\ UNCHANGED << configVars, marketVars, capitalVars, positionVars, paramVars,
                    param_files, pc, order_side, current_order_id, last_mid_price,
                    current_mid_price, order_price, sleep_left >>

OrdersPlaceReturn ==
    /\ req.kind = "create_order"
    /\ \E outcome \in Outcomes :
          LET r == place_order(current_order_id, req.id, outcome) IN
          /\ current_order_id' = r.id
          /\ ev' = [op |-> "place_order", outcome |-> outcome, ok |-> r.ok,
                    raised |-> r.raised, prev_id |-> current_order_id]
    /\ req' = NoReq
    /\ UNCHANGED << configVars, marketVars, capitalVars, positionVars, paramVars,
                    param_files, pc, order_side, last_mid_price,
                    current_mid_price, order_price, sleep_left >>

OrdersCancelCall ==
    /\ req = NoReq
    /\ req' = CancelAllReq
    /\ ev' = [op |-> "cancel_call",
              calls |-> IF ev.op = "cancel_order" THEN ev.calls ELSE 0]
    /\ UNCHANGED << configVars, marketVars, capitalVars, positionVars, paramVars,
                    param_files, pc, order_side, current_order_id, last_mid_price,
                    current_mid_price, order_price, sleep_left >>

OrdersCancelReturn ==
    /\ req.kind = "cancel_all"
    /\ \E outcome \in Outcomes :
          LET r == cancel_order(current_order_id, outcome) IN
          /\ current_order_id' = r.id
          /\ ev' = [op |-> "cancel_order", outcome |-> outcome, ok |-> r.ok,
                    raised |-> r.raised, prev_id |-> current_order_id,
                    calls |-> IF ev.calls < MaxCalls THEN ev.calls + 1 ELSE MaxCalls]
    /\ req' = NoReq
    /\ UNCHANGED << configVars, marketVars, capitalVars, positionVars, paramVars,
                    param_files, pc, order_side, last_mid_price,
                    current_mid_price, order_price, sleep_left >>

InitOrders == InitWith(AllMissing) /\ sleep_left = 0
NextOrders == OrdersPlaceCall \/ OrdersPlaceReturn \/ OrdersCancelCall \/ OrdersCancelReturn
SpecOrders == InitOrders /\ [][NextOrders]_vars

(***************************************************************************)
(* The Market State Cache on its own: on_order_book_update and             *)
(* get_current_mid_price called in any order, with ages counted in whole   *)
(* seconds.  ob_age is the age of last_order_book_update; ev.mid_age is    *)
(* the time since the last snapshot that had both sides and parsed.        *)
(***************************************************************************)
\* ages are counted up to MaxAge seconds
MaxAge == 12

MarketBooks == { Book(Num(999), Num(1001)), Book(Num(1000), Num(1002)),
                 Book(Absent, Num(1001)), Book(Num(999), Absent),
                 Book(Absent, Absent), Book(Str, Num(1001)) }

MidAge == IF ev.op = "init" THEN 0 ELSE ev.mid_age

\* on_order_book_update(MARKET_ID, book)
MarketSnapshot ==
    /\ \E book \in MarketBooks :
         /\ IF BookRaises(book)
            THEN /\ ws_connection_healthy' = FALSE
                 /\ UNCHANGED << latest_order_book, current_mid_price_cached, ob_age,
                                 order_book_received >>
            ELSE /\ current_mid_price_cached' = CachedMidAfter(book, current_mid_price_cached)
                 /\ latest_order_book' = Some(book)
                 /\ ws_connection_healthy' = TRUE
                 /\ ob_age' = 0
                 /\ order_book_received' = TRUE
         /\ ev' = [op |-> "on_order_book_update", book |-> book,
                   prev_cached |-> current_mid_price_cached, prev_age |-> ob_age,
                   mid_age |-> IF BothSides(book) /\ ~BookRaises(book) THEN 0 ELSE MidAge]
    /\ UNCHANGED << configVars, ws_task_done, capitalVars, positionVars, paramVars,
                    param_files, ctrlVars >>

\* one second passes
MarketClock ==
    /\ ob_age < MaxAge
    /\ ob_age' = ob_age + 1
    /\ ev' = [op |-> "clock", mid_age |-> IF MidAge < MaxAge THEN MidAge + 1 ELSE MaxAge]
    /\ UNCHANGED << configVars, latest_order_book, current_mid_price_cached,
                    ws_connection_healthy, order_book_received, ws_task_done,
                    capitalVars, positionVars, paramVars, param_files, ctrlVars >>

\* the controller reads the mid (line 522)
MarketRead ==
    /\ current_mid_price' =
          get_current_mid_price(current_mid_price_cached, ob_age, latest_order_book)
    /\ ev' = [op |-> "get_current_mid_price", mid_age |-> MidAge]
    /\ UNCHANGED << configVars, marketVars, capitalVars, positionVars, paramVars,
                    param_files, pc, order_side, current_order_id, last_mid_price,
                    order_price, sleep_left, req >>

InitMarket == InitWith(AllMissing) /\ sleep_left = 0
NextMarket == MarketSnapshot \/ MarketClock \/ MarketRead
SpecMarket == InitMarket /\ [][NextMarket]_vars

(***************************************************************************)
(* The startup of main up to the call of market_making_loop, with every    *)
(* kind of snapshot of MarketBooks, empty sides included.                  *)
(***************************************************************************)
StartupOrderBookMessage == OrderBookMessageFrom(MarketBooks)

InitStartup == Init
NextStartup ==
    \/ StartupBookReady \/ StartupCapitalReady \/ StartupPositionReady \/ StartupTimeout
    \/ StartupOrderBookMessage \/ LoopUserStatsMessage \/ LoopAccountAllMessage
SpecStartup == InitStartup /\ [][NextStartup]_vars

(***************************************************************************)
(* The program without shutdown, with its parameter files left alone and   *)
(* the stream task never ending by itself, for progress properties of the  *)
(* loop.  The main task is resumed whenever its sleep ends or the awaited  *)
(* reply or event arrives: weak fairness of its steps.                     *)
(***************************************************************************)
ControllerStep ==
    \/ StartupBookReady \/ StartupCapitalReady \/ StartupPositionReady \/ StartupTimeout
    \/ CloseReply \/ ClosePollConfirmed \/ ClosePollTimeout
    \/ LoopIterate \/ RestartRaises \/ RestartReady \/ RestartTimedOut
    \/ Cancel1Reply \/ PlaceReply \/ SleepRetryWake \/ TimeoutWake \/ Cancel2Reply

NextProgress ==
    \/ ControllerStep
    \/ OrderBookMessage \/ LoopUserStatsMessage \/ LoopAccountAllMessage

SpecProgress == Init /\ [][NextProgress]_vars /\ WF_vars(ControllerStep)


(***************************************************************************)
(* Properties.                                                             *)
(***************************************************************************)
\* C1: an order is submitted only while no order is recorded
\* (current_order_id is None), and a recorded order leaves the record only
\* through a cancel-all request whose reply is an acknowledgement; so from
\* the recording of an order to the acknowledged cancel-all no further order
\* is placed.
C1_SingleActiveOrder ==
    /\ [](req.kind = "create_order" => current_order_id = None)
    /\ [][(current_order_id # None /\ current_order_id' # current_order_id)
             => /\ req.kind = "cancel_all"
                /\ current_order_id' = None
                /\ ev'.op \in {"cancel_reply", "side_flip", "cleanup_cancel_reply"}
                /\ ev'.outcome = "ack"]_vars

\* C1 witness: the price-change cancel of a recorded order was acknowledged
\* and the replacement order is being submitted.
C1_Witness ==
    /\ pc = "place_wait"
    /\ ev.op = "cancel_reply"
    /\ ev.outcome = "ack"
    /\ current_order_id = None

\* C2 as claimed: whenever the side-flip decision has been evaluated, no
\* order is recorded, whatever the reply of the timeout cancel was.
C2_NoOrderAtFlip ==
    ev.op = "side_flip" => current_order_id = None

\* C3: the side after the flip decision is this function of the side
\* before, the position and the mid: Buy becomes Sell iff position > 0; Sell
\* becomes Buy iff |position| < 1e-9, or position > 0 and position * mid is
\* below 15; otherwise the side is unchanged.
C3_FlipFunction ==
    ev.op = "side_flip" =>
        /\ ev.mid # None
        /\ LET p == ev.position
               notional == p * Val(ev.mid)
           IN
           IF ev.prev_side = "buy"
           THEN order_side = (IF p > 0 THEN "sell" ELSE "buy")
           ELSE order_side = (IF \/ Abs(p) * (NearZeroInv \div PosScale) < 1
                                 \/ (p > 0 /\ notional < MinNotional * PosScale)
                              THEN "buy" ELSE "sell")

\* C3 witness: on the Sell side a positive position worth less than 15 flips
\* the side to Buy.
C3_Witness ==
    /\ ev.op = "side_flip"
    /\ ev.prev_side = "sell"
    /\ ev.position > 0
    /\ ev.position * Val(ev.mid) < MinNotional * PosScale
    /\ order_side = "buy"

\* the relative difference |mid - last| / last is strictly above 0.1%
MovedBeyondThreshold == Abs(Val(ev.mid) - Val(ev.last)) * PriceChangeInv > Val(ev.last)

\* C4 as claimed: in every iteration that finds an order recorded and reads
\* a mid, the cancel is sent iff the mid moved by strictly more than 0.1%
\* from the last quoted mid.
C4_CancelIffMoved ==
    (ev.op \in {"quote_step", "no_quote"} /\ ev.had_order) =>
        /\ ev.last # None
        /\ ev.cancel_sent <=> MovedBeyondThreshold

\* C4 amended: in every iteration that finds an order recorded, reads a mid
\* and obtains a quote price, the cancel is sent iff the mid moved by
\* strictly more than 0.1% from the last quoted mid; at or below 0.1% the
\* order is kept.  An iteration that obtains no quote (strict mode without
\* parameters) sends no cancel, whatever the move.
C4_CancelIffMovedWhenQuoting ==
    /\ (ev.op = "quote_step" /\ ev.had_order) =>
          /\ ev.last # None
          /\ ev.cancel_sent <=> MovedBeyondThreshold
    /\ ev.op = "no_quote" => (~ev.cancel_sent /\ req.kind # "cancel_all")

\* C4 witness: an order is recorded, the mid moved by exactly 0.1%, and the
\* order is kept.
C4_Witness ==
    /\ ev.op = "quote_step"
    /\ ev.had_order
    /\ Abs(Val(ev.mid) - Val(ev.last)) * PriceChangeInv = Val(ev.last)
    /\ ~ev.cancel_sent
    /\ current_order_id # None

\* C5 as claimed: in strict-parameters mode every order being submitted, by
\* the loop or by the startup liquidation, is submitted with valid
\* parameters loaded.
C5_NoOrderWithoutParams ==
    (REQUIRE_PARAMS /\ req.kind = "create_order") => avellaneda_params # None

\* a parameter set whose two offsets are numeric, finite and non-negative
SetIsValid(p) ==
    /\ p.kind = "params"
    /\ \A d \in {p.delta_a, p.delta_b} : d.t \in {"num", "numstr"} /\ d.v >= 0
\* the call found the cache empty or past its refresh window, so it read the files
Reread == ev.prev_params = None \/ ev.prev_age >= AVELLANEDA_REFRESH_INTERVAL
\* candidate i is the first one that exists
FirstExisting(i) ==
    /\ param_files[i].kind # "missing"
    /\ \A j \in 1..(i - 1) : param_files[j].kind = "missing"

\* C6: after any call of the parameter loader the cache is empty or holds a
\* set whose delta_a and delta_b are both numeric, finite and non-negative;
\* and when the loader reads the files (cache empty or refresh window
\* expired) and the file it reads has no valid structure or an invalid
\* offset, or no file exists, the cache is left empty.
C6_CacheEmptyOrValid ==
    /\ avellaneda_params # None => SetIsValid(Val(avellaneda_params))
    /\ (ev.op = "calculate_order_price" /\ Reread) =>
          /\ (\A i \in 1..NumCandidates : param_files[i].kind = "missing")
                => avellaneda_params = None
          /\ \A i \in 1..NumCandidates :
                (FirstExisting(i) /\ ~SetIsValid(param_files[i]))
                    => avellaneda_params = None

\* C6 witness: a cached set has expired and the file read has a valid
\* delta_a and a NaN delta_b; the cache is emptied.
C6_Witness ==
    /\ ev.op = "calculate_order_price"
    /\ ev.prev_params # None
    /\ ev.prev_age >= AVELLANEDA_REFRESH_INTERVAL
    /\ param_files[1] = ParamsFile(Num(20000), NaN)
    /\ avellaneda_params = None

\* C7 as claimed: whenever the loader reads the files and some candidate is
\* valid, it returns the parameters of the first valid candidate.
C7_FirstValidWins ==
    (ev.op = "calculate_order_price" /\ Reread) =>
        \A i \in 1..NumCandidates :
            ( /\ SetIsValid(param_files[i])
              /\ \A j \in 1..(i - 1) : ~SetIsValid(param_files[j]) )
            => (ev.ok /\ avellaneda_params = Some(param_files[i]))

\* C7 amended: whenever the loader reads the files, the first candidate that
\* exists decides alone: its parameters are returned if it is valid, and
\* otherwise (unreadable JSON, invalid structure or offsets) the loader
\* returns no parameters without looking at later candidates; no parameters
\* are returned when every candidate is missing.
C7_FirstExistingDecides ==
    (ev.op = "calculate_order_price" /\ Reread) =>
        /\ (\A i \in 1..NumCandidates : param_files[i].kind = "missing")
              => (~ev.ok /\ avellaneda_params = None)
        /\ \A i \in 1..NumCandidates : FirstExisting(i) =>
              IF SetIsValid(param_files[i])
              THEN ev.ok /\ avellaneda_params = Some(param_files[i])
              ELSE ~ev.ok /\ avellaneda_params = None

\* C7 witness: the first candidate is unreadable JSON, the second is valid,
\* and the loader returned nothing.
C7_Witness ==
    /\ ev.op = "calculate_order_price"
    /\ Reread
    /\ param_files[1].kind = "badjson"
    /\ SetIsValid(param_files[2])
    /\ ~ev.ok
    /\ avellaneda_params = None

\* C8: with valid parameters the quote is mid - delta_b for Buy and
\* mid + delta_a for Sell; with none and strict mode off it is
\* mid * (1 - SPREAD) for Buy and mid * (1 + SPREAD) for Sell; a Buy quote is
\* never above mid and a Sell quote never below it.  (Prices in 1/PriceDen.)
C8_QuotePrice ==
    ev.op = "calculate_order_price" =>
        LET m == ev.mid * PriceDen IN
        /\ avellaneda_params # None =>
              order_price = Some(IF ev.side = "buy"
                                 THEN m - Val(avellaneda_params).delta_b.v
                                 ELSE m + Val(avellaneda_params).delta_a.v)
        /\ (avellaneda_params = None /\ ~REQUIRE_PARAMS) =>
              order_price = Some(IF ev.side = "buy"
                                 THEN m - ev.mid * SpreadNum
                                 ELSE m + ev.mid * SpreadNum)
        /\ order_price # None =>
              IF ev.side = "buy" THEN Val(order_price) <= m ELSE Val(order_price) >= m

\* C8 witness: a Sell quote priced from loaded parameters, above mid.
C8_Witness ==
    /\ ev.op = "calculate_order_price"
    /\ ev.side = "sell"
    /\ avellaneda_params # None
    /\ Val(order_price) = ev.mid * PriceDen + 20000

\* a reported stats value that is a strictly positive number
StrictlyPositive(x) == x.t \in {"num", "numstr"} /\ x.v > 0

\* C9: a capital/portfolio update replaces (available_capital,
\* portfolio_value) by the reported pair iff both reported values are
\* strictly positive; otherwise both fields and the readiness signal keep
\* their previous values.
C9_CapitalAccepts ==
    ev.op = "on_user_stats_update" =>
        IF StrictlyPositive(ev.stats.available_balance)
           /\ StrictlyPositive(ev.stats.portfolio_value)
        THEN /\ available_capital = Some(ev.stats.available_balance.v)
             /\ portfolio_value = Some(ev.stats.portfolio_value.v)
             /\ account_state_received
        ELSE /\ available_capital = ev.prev_capital
             /\ portfolio_value = ev.prev_portfolio
             /\ account_state_received = ev.prev_received

\* C9 witness: after an accepted pair, an update with a positive balance and
\* a zero portfolio value leaves the accepted pair in place.
C9_Witness ==
    /\ ev.op = "on_user_stats_update"
    /\ ev.stats = [available_balance |-> NumStr(2000), portfolio_value |-> Num(0)]
    /\ ev.prev_capital = Some(1000)
    /\ available_capital = Some(1000)
    /\ portfolio_value = Some(1000)

\* the account message carries a numeric size, or none, for the tracked market
SizeIsNumeric(msg) ==
    msg.entry = "present" => msg.position.t \in {"absent", "num", "numstr"}

\* C10: after every account-wide update the cached position size equals the
\* size the update reports for the tracked market, and zero when the update
\* has no position entry for it; the cache reflects the latest message.
C10_PositionTracksStream ==
    (ev.op = "on_account_all_update" /\ SizeIsNumeric(ev.msg)) =>
        current_position_size =
            (IF ev.msg.entry = "present" /\ ev.msg.position.t # "absent"
             THEN ev.msg.position.v ELSE 0)

\* C10 witness: a long position is cached and an update without an entry
\* for the market arrives; the cache reads zero.
C10_Witness ==
    /\ ev.op = "on_account_all_update"
    /\ ev.prev_size = 15
    /\ ev.msg.entry = "absent"
    /\ current_position_size = 0

\* ---- C11 ----

\* the awaits of market_making_loop
LoopPcs ==
    {"loop_top", "restart_wait", "cancel1_wait", "place_wait", "sleep_retry",
     "sleep_timeout", "cancel2_wait"}

\* the awaits of the finally block and the end of main
CleanupPcs == {"cleanup", "cleanup_cancel_wait", "cleanup_close", "done", "interrupted"}

\* a first order book, a valid capital figure and a position message were seen
AllReady ==
    /\ latest_order_book # None
    /\ account_state_received /\ available_capital # None
    /\ account_all_received

\* C11: the loop is entered and an order is requested only after all three
\* readiness signals were observed; a readiness wait whose signal is missing
\* ends in the cleanup path, from which neither the loop nor an order follows
C11_ReadyBeforeLoop ==
    /\ []((pc \in LoopPcs \cup {"close_wait", "close_poll"} \/ req.kind = "create_order")
             => AllReady)
    /\ [][(pc \in StartupWaits /\ ~WaitedSignal /\ pc' # pc) => pc' = "cleanup"]_vars
    /\ [][(pc \in CleanupPcs)
             => (pc' \in CleanupPcs /\ (req'.kind = "create_order" => req' = req))]_vars

\* the position wait timed out after book and capital were seen: cleanup
C11_Witness ==
    /\ ev.op = "startup_timeout"
    /\ pc = "cleanup"
    /\ latest_order_book # None
    /\ account_state_received
    /\ ~account_all_received
    /\ req = NoReq

\* ---- C12 ----

\* C12: after the startup liquidation was attempted, market_making_loop is
\* entered only with the position confirmed closed by the account stream
C12_LoopOnlyAfterClose ==
    (pc = "loop_top" /\ ev.op = "close_reply") => NearZero(current_position_size)

\* ---- C14 ----

\* C14: a health check made with the last book update more than 30 seconds
\* old, or with the stream task terminated, reports unhealthy whatever the
\* healthy flag says, and the iteration takes the restart path (in which
\* stopping the old task may raise)
C14_UnhealthyWhenStaleOrEnded ==
    [][(pc = "loop_top" /\ (ob_age > HealthStaleLimit \/ ws_task_done))
         => /\ ~check_websocket_health(ob_age, ws_task_done, ws_connection_healthy).ok
            /\ ev'.op \in {"restart_websocket", "loop_error"}
            /\ ~ws_connection_healthy']_vars

\* unhealthy was reported for a terminated task with the flag set and a recent book
C14_Witness ==
    /\ ev.op = "restart_websocket"
    /\ ev.done /\ ev.flag /\ ~ev.stale
    /\ pc = "restart_wait"

\* ---- C17 ----

\* C17: an iteration on the sell side requests an order only with a positive
\* position whose notional at the iteration's mid is at least 15 dollars, and
\* the requested size is the whole position; otherwise it requests none
C17_SellOnlyWholePosition ==
    [][(pc # "place_wait" /\ pc' = "place_wait" /\ order_side = "sell")
         => /\ current_position_size > 0
            /\ NotionalAtLeastMin(current_position_size, Val(current_mid_price'))
            /\ req'.kind = "create_order"
            /\ req'.side = "sell"
            /\ req'.amount = current_position_size]_vars

\* a sell of the whole position at a notional of exactly 15 dollars
C17_Witness ==
    /\ pc = "place_wait"
    /\ req.kind = "create_order" /\ req.side = "sell" /\ req.amount = 15
    /\ current_mid_price = Some(1000)
    /\ current_position_size = 15

\* ---- C19 ----

\* C19: the flip decision after the reconciliation sleep takes the notional
\* of the position at the mid the market cache holds when the decision is made
C19_FlipUsesCurrentMid ==
    [][(pc \in {"sleep_timeout", "cancel2_wait"} /\ pc' = "sleep_retry")
         => order_side' = SideAfterFlip(order_side, current_position_size,
                                        current_mid_price_cached)]_vars

\* ---- C18 ----

\* C18: a call of cancel_order made with no order recorded raises nothing and
\* leaves no order recorded, whatever the transport replies and however many
\* such calls came before it
C18_CancelIdempotent ==
    (ev.op = "cancel_order" /\ ev.prev_id = None)
        => (current_order_id = None /\ ~ev.raised /\ ev.ok = (ev.outcome = "ack"))

\* the third call in a row with no order recorded, rejected by the transport
C18_Witness ==
    /\ ev.op = "cancel_order"
    /\ ev.prev_id = None
    /\ ev.calls = 3
    /\ ev.outcome = "exc"
    /\ current_order_id = None

\* ---- C13 ----

\* the awaits of the finally block
CleanupSteps == {"cleanup", "cleanup_cancel_wait", "cleanup_close"}

\* C13: once main is in its finally block, every step leads to the next
\* cleanup step or to the end of main with the transport released, also
\* when another termination signal arrives
C13_CleanupCompletes ==
    [][(pc \in CleanupSteps) => (pc' \in CleanupSteps \cup {"done"})]_vars

\* ---- C15 ----

C16_LoopSurvivesErrors ==
    /\ [](ev.op = "loop_error" => pc = "sleep_retry")
    /\ [][(pc = "sleep_retry" /\ pc' \notin {"sleep_retry", "cleanup"})
            => (pc' = "loop_top" /\ ev'.op = "wake")]_vars
    /\ [][(pc \in LoopPcs /\ pc' \notin LoopPcs)
            => (pc' = "cleanup" /\ ev'.op = "shutdown")]_vars

\* a new iteration starts after an error whose text does not name the stream
C16_Witness ==
    /\ pc = "loop_top"
    /\ ev.op = "wake"
    /\ ev.after_error /\ ~ev.after_stream_error

\* ---- C20 ----

\* C20: the iteration that follows an error whose text names the stream finds
\* the stream unhealthy and restarts it, whatever the streams delivered
\* during the handler's sleep
C20_StreamErrorForcesRestart ==
    [][(pc = "loop_top" /\ ev.op = "wake" /\ ev.after_stream_error)
         => /\ ~check_websocket_health(ob_age, ws_task_done, ws_connection_healthy).ok
            /\ pc' = "restart_wait"
            /\ ev'.op = "restart_websocket"]_vars

\* the restart that follows an error naming the stream, with the messages of
\* the other streams received during the sleep
C20_Witness ==
    /\ pc = "loop_top"
    /\ ev.op = "wake" /\ ev.after_stream_error
    /\ ws_task_done
    /\ current_position_size = 15
    /\ available_capital # None

\* ---- C21 ----

\* C21: a placement that fails leaves the side, the last quoted mid and the
\* empty order record as they were, and the iteration ends in the 5 second
\* backoff, without the reconciliation sleep and the flip decision
C21_FailedPlacementFrame ==
    [][(pc = "place_wait" /\ ev'.op = "place_reply" /\ ~ev'.ok)
         => /\ order_side' = order_side
            /\ last_mid_price' = last_mid_price
            /\ current_order_id = None /\ current_order_id' = None
            /\ pc' = "sleep_retry" /\ sleep_left' = 5]_vars

\* a failed placement on the sell side after an earlier quote
C21_Witness ==
    /\ ev.op = "place_reply" /\ ~ev.ok
    /\ pc = "sleep_retry"
    /\ order_side = "sell"
    /\ last_mid_price # None
    /\ current_order_id = None

\* ---- C22 ----

\* the steps of the controller that handle a failure
FailureStep ==
    /\ pc' # pc
    /\ \/ ev'.op \in {"no_mid", "no_quote", "restart_websocket", "restart_failed",
                     "loop_error"}
       \/ ev'.op = "place_reply" /\ ~ev'.ok
       \/ ev'.op = "cancel_reply" /\ ev'.outcome # "ack"

\* C22: the side changes only in the startup side selection (the liquidation
\* included) and in the flip decision; the cached position changes only in
\* the account stream's callback; no step that handles a failure changes
\* either
C22_SideChangesByRule ==
    /\ [][(order_side' # order_side)
            => (pc' # pc /\ ev'.op \in {"startup_side", "close_reply", "side_flip"})]_vars
    /\ [][(current_position_size' # current_position_size) => (pc' = pc /\ ev' = ev)]_vars
    /\ [][FailureStep => (order_side' = order_side
                          /\ current_position_size' = current_position_size)]_vars

\* on the sell side with a position: no quote is available, the side is kept
C22_Witness ==
    /\ ev.op = "no_quote"
    /\ pc = "sleep_retry"
    /\ order_side = "sell"
    /\ current_position_size = 15

\* ---- C23 ----

\* C23: a snapshot with an empty side replaces the cached book and leaves the
\* cached mid and its timestamp as they were, so that the age compared with
\* the freshness window is the time since the last snapshot with both
\* sides, and a mid older than the window is not returned when the cached
\* book has an empty side
C23_EmptySideKeepsMidAge ==
    /\ (ev.op = "on_order_book_update" /\ ~BothSides(ev.book))
          => /\ latest_order_book = Some(ev.book)
             /\ current_mid_price_cached = ev.prev_cached
             /\ ob_age = ev.prev_age
    /\ (ev.op = "get_current_mid_price" /\ ev.mid_age >= MidFreshWindow
          /\ latest_order_book # None /\ ~BothSides(Val(latest_order_book)))
          => current_mid_price = None

\* ---- C24 ----

\* C24: a step of a stream callback (main stays at its await) leaves the
\* order record, the side, the last quoted mid and the request in flight
\* unchanged; a step of the controller leaves the cached capital and the
\* cached position unchanged
C24_WritersSeparated ==
    /\ [][(pc' = pc)
            => (current_order_id' = current_order_id /\ order_side' = order_side
                /\ last_mid_price' = last_mid_price /\ req' = req)]_vars
    /\ [][(pc' # pc)
            => (available_capital' = available_capital
                /\ portfolio_value' = portfolio_value
                /\ current_position_size' = current_position_size)]_vars

\* during the reconciliation sleep of a buy order the account stream reports
\* a position and the capital stream a new balance; the order stays recorded
C24_Witness ==
    /\ pc = "sleep_timeout"
    /\ current_order_id # None
    /\ order_side = "buy"
    /\ current_position_size = 15
    /\ available_capital = Some(100)
    /\ sleep_left < ORDER_TIMEOUT

\* ---- C25 ----

\* C25 as claimed: without auto-liquidation the loop starts on the sell
\* side iff the position is long and its notional at the mid is at least 15
C25_InitialSideByNotional ==
    ev.op = "startup_side" =>
        (order_side = "sell"
           <=> (ev.position > 0 /\ ev.mid # None
                /\ NotionalAtLeastMin(ev.position, Val(ev.mid))))

\* C25 amended: without auto-liquidation the loop starts on the buy side
\* with no long position, and with a long position on the sell side iff its
\* notional at the mid is at least 15 or no mid is available
C25_InitialSide ==
    ev.op = "startup_side" =>
        /\ pc = "loop_top"
        /\ order_side =
             (IF ev.position <= 0 THEN "buy"
              ELSE IF ev.mid = None THEN "sell"
              ELSE IF NotionalAtLeastMin(ev.position, Val(ev.mid)) THEN "sell"
              ELSE "buy")

\* a long position whose notional cannot be evaluated: the loop starts selling
C25_Witness ==
    /\ ev.op = "startup_side"
    /\ ev.position = 14
    /\ ev.mid = None
    /\ order_side = "sell"

\* ---- C26 ----

\* C26: the flip decision changes the side only when no order is left
\* recorded, so that a recorded order always belongs to the current side
C26_NoFlipWithOrderRecorded ==
    [][(ev'.op = "side_flip" /\ pc' # pc /\ order_side' # order_side)
         => current_order_id' = None]_vars

\* ---- C27 ----

\* C27: when the shutdown cancellation reaches main with an order recorded or
\* with a placement request in flight, the finally block sends a cancel-all
C27_InFlightOrderCancelled ==
    [][(pc = "cleanup" /\ pc' # pc
        /\ (current_order_id # None \/ req.kind = "create_order"))
         => req'.kind = "cancel_all"]_vars

\* ---- C28 ----

\* a step of the loop met an unhealthy stream, a missing mid or quote, or a
\* reply of the transport that is not an acknowledgement, or main left the loop
PremiseBroken ==
    \/ pc \notin LoopPcs
    \/ ev.op \in {"restart_websocket", "restart_failed", "loop_error", "no_mid", "no_quote"}
    \/ ev.op \in {"place_reply", "close_reply"} /\ ~ev.ok
    \/ ev.op \in {"cancel_reply", "side_flip"} /\ ev.outcome \in {"err", "exc"}

\* C28: on the sell side, with the stream healthy, a quote available, the
\* transport acknowledging and the position staying at p, the controller
\* eventually requests a sell order or is on the buy side, for every p
C28_SellSideProgress ==
    \A p \in {-15, 0, 14, 15} :
        (pc \in LoopPcs /\ order_side = "sell" /\ current_position_size = p)
            ~> \/ req.kind = "create_order" /\ req.side = "sell"
               \/ order_side = "buy"
               \/ current_position_size # p
               \/ PremiseBroken

\* C29: every placement request of the quoting loop is sent in an iteration
\* whose health check passed or whose restart succeeded, with the mid read
\* from the cache after that check or restart; an iteration whose health
\* check failed and whose restart did not succeed sends no placement.
C29_PlacementAfterHealthyCheck ==
    [][/\ (ev'.op \in {"quote_step", "no_quote"} /\ pc' # pc) =>
              /\ \/ /\ pc = "loop_top"
                    /\ check_websocket_health(ob_age, ws_task_done,
                                              ws_connection_healthy).ok
                    /\ ~ev'.restarted
                 \/ /\ pc = "restart_wait"
                    /\ order_book_received
                    /\ ev'.restarted
              /\ ev'.mid = get_current_mid_price(current_mid_price_cached, ob_age,
                                                 latest_order_book)
              /\ ev'.mid # None
       /\ (pc' = "place_wait" /\ pc # "place_wait") =>
              /\ req'.kind = "create_order"
              /\ \/ /\ pc \in {"loop_top", "restart_wait"}
                    /\ ev'.op = "quote_step"
                    /\ current_mid_price' = ev'.mid
                 \/ /\ pc = "cancel1_wait"
                    /\ ev.op = "quote_step"
                    /\ ev.cancel_sent
                    /\ current_mid_price = ev.mid
                    /\ current_mid_price' = ev.mid]_vars

\* C29 witness: a placement request is in flight in an iteration that found
\* the stream unhealthy and restarted it successfully.
C29_Witness ==
    /\ pc = "place_wait"
    /\ req.kind = "create_order"
    /\ ev.op = "quote_step"
    /\ ev.restarted
    /\ current_mid_price = ev.mid

====
